---- MODULE Spec2Model ----
(***************************************************************************)
(* Evocode tutoring backend: the topic progression resolver                *)
(* (agents/student_model.py), the mixed-quiz grader (agents/grader.py),    *)
(* the quiz orchestration (agents/ai_tutor.py) and the HTTP handlers       *)
(* (main.py) over the learner profile store.                               *)
(***************************************************************************)
EXTENDS Integers, Sequences, FiniteSets, TLC

VARIABLES
    knowledge_graph,  \* student_model.knowledge_graph: categories of topics, in file order
    db,               \* Firestore collection 'users': user id -> stored document
    active_quizzes,   \* grader.active_quizzes: insertion-ordered dict key -> MixedQuiz
    resp,             \* the request just handled and the response it produced
    mastered,         \* resolver runs: the verified_mastery list of the profile passed in
    next_topic,       \* resolver runs: what get_next_topic returned for it
    grading,          \* grader runs: one call of the grading functions and its result
    requests          \* concurrent runs: the requests in flight, each at its place in its handler

vars == <<knowledge_graph, db, active_quizzes, resp, mastered, next_topic, grading, requests>>

----------------------------------------------------------------------------
(* Bounds of the model *)

\* longest prerequisites list of a topic in the enumerated graphs
MaxPrereqs == 2
\* longest claimed_mastery list an onboarding request carries
MaxClaimed == 2
\* largest answer index a submission carries (the stored index is 0..3)
MaxAnswer == 4
\* most polls the execution service answers "in queue / processing" before the job ends
MaxPending == 11

(* Program constants *)

\* grader.py:89  for _ in range(10)
MaxPolls == 10
\* grader.py:201 mcq_passed = mcq_score >= 2
McqPassMark == 2
\* models.py:43 correct_answer le=3
MaxOption == 3
\* models.py:58 exactly 3 MCQ questions
NumMcq == 3
\* grader.py:98 Judge0 status id 3 is "Accepted"
AcceptedId == 3
\* grader.py:97 status ids above 2 are final
LastPendingId == 2

----------------------------------------------------------------------------
(* Generic helpers: Python built-ins used by the code *)

\* set(list)
Range(s) == {s[i] : i \in 1..Len(s)}

\* all lists over S of length at most n
SeqsUpTo(S, n) == UNION {[1..k -> S] : k \in 0..n}

Users == {"u1", "u2"}

\* a document that does not exist (doc.exists is False)
NoDoc == [exists |-> FALSE]

EmptyDb == [u \in Users |-> NoDoc]

\* Python None for a missing topic / lesson
NoTopic == [title |-> "None", id |-> "None"]

----------------------------------------------------------------------------
(* The topic graph, KnowledgeGraph.json:                                   *)
(*   {category: {topicTitle: {id, prerequisites[], concepts[]}}}           *)

\* ids of the topics a graph may hold, in file order
TopicOrder == <<"A", "B", "C">>
TopicIds == Range(TopicOrder)
\* an id that is the id of no topic of any graph
MissingId == "X"
AllIds == TopicIds \cup {MissingId}

TitleOf(id) == "T_" \o id

TopicEntry(id, prereqs) == [title |-> TitleOf(id), id |-> id, prerequisites |-> prereqs]

\* prerequisites lists: duplicate-free lists over AllIds, at most MaxPrereqs long
RECURSIVE ListsOver(_, _)
ListsOver(S, n) ==
    IF n = 0 \/ S = {} THEN {<<>>}
    ELSE {<<>>} \cup UNION {{<<x>> \o r : r \in ListsOver({y \in S : y # x}, n - 1)} : x \in S}

\* a fixed order of the ids, to list a set of ids one way only
IdOrder == TopicOrder \o <<MissingId>>
Rank(id) == CHOOSE i \in 1..Len(IdOrder) : IdOrder[i] = id
Sorted(s) == \A i \in 1..Len(s) - 1 : Rank(s[i]) < Rank(s[i + 1])
PrereqLists == {s \in ListsOver(AllIds, MaxPrereqs) : Sorted(s)}

\* a graph of the first n topics, the first `cut` of them in category 1, the rest in category 2
MakeGraph(n, cut, pre) ==
    << [i \in 1..cut |-> TopicEntry(TopicOrder[i], pre[i])],
       [i \in 1..(n - cut) |-> TopicEntry(TopicOrder[cut + i], pre[cut + i])] >>

Graphs ==
    UNION {UNION {{MakeGraph(n, cut, pre) : pre \in [1..n -> PrereqLists]}
                  : cut \in {1, n}} : n \in 1..Len(TopicOrder)}

\* the graph of the documented scenario {A: [], B: [A]}
ScenarioGraph == MakeGraph(2, 2, <<<<>>, <<"A">>>>)

\* every topic of a graph, in enumeration order (categories in order, topics in order)
RECURSIVE Flatten(_)
Flatten(graph) == IF graph = <<>> THEN <<>> ELSE Head(graph) \o Flatten(Tail(graph))

GraphIds(graph) == {t.id : t \in Range(Flatten(graph))}

----------------------------------------------------------------------------
(* student_model.get_next_topic *)

\* (mutant) a topic is taken as soon as one of its prerequisites is verified
RECURSIVE ScanCategoryAnyPrereq(_, _, _)
ScanCategoryAnyPrereq(category, i, verified_ids) ==
    IF i > Len(category) THEN NoTopic
    ELSE LET topic_details == category[i] IN
         IF topic_details.id \in verified_ids
         THEN ScanCategoryAnyPrereq(category, i + 1, verified_ids)
         ELSE IF Range(topic_details.prerequisites) = {}
                 \/ Range(topic_details.prerequisites) \cap verified_ids # {}
         THEN [title |-> topic_details.title, id |-> topic_details.id]
         ELSE ScanCategoryAnyPrereq(category, i + 1, verified_ids)

\* (mutant) prerequisites that are the id of no listed topic are skipped
RECURSIVE ScanCategoryKnownPrereqs(_, _, _)
ScanCategoryKnownPrereqs(category, i, verified_ids) ==
    IF i > Len(category) THEN NoTopic
    ELSE LET topic_details == category[i] IN
         IF topic_details.id \in verified_ids
         THEN ScanCategoryKnownPrereqs(category, i + 1, verified_ids)
         ELSE IF (Range(topic_details.prerequisites) \cap TopicIds) \subseteq verified_ids
         THEN [title |-> topic_details.title, id |-> topic_details.id]
         ELSE ScanCategoryKnownPrereqs(category, i + 1, verified_ids)

\* the inner loop over one category; NoTopic when it finishes without returning
RECURSIVE ScanCategory(_, _, _)
ScanCategory(category, i, verified_ids) ==
    IF i > Len(category) THEN NoTopic
    ELSE LET topic_details == category[i] IN
         IF topic_details.id \in verified_ids
         THEN ScanCategory(category, i + 1, verified_ids)
         ELSE IF Range(topic_details.prerequisites) \subseteq verified_ids
         THEN [title |-> topic_details.title, id |-> topic_details.id]
         ELSE ScanCategory(category, i + 1, verified_ids)

\* (mutant) the categories scanned, the match of the last one kept
RECURSIVE ScanGraphLastMatch(_, _, _)
ScanGraphLastMatch(graph, c, verified_ids) ==
    IF c > Len(graph) THEN NoTopic
    ELSE LET later == ScanGraphLastMatch(graph, c + 1, verified_ids) IN
         IF later # NoTopic THEN later ELSE ScanCategory(graph[c], 1, verified_ids)

\* (mutant) the scan ends with the first category, found a topic there or not
ScanGraphFirstCategory(graph, c, verified_ids) ==
    IF c > Len(graph) THEN NoTopic ELSE ScanCategory(graph[c], 1, verified_ids)

\* the outer loop over the categories
RECURSIVE ScanGraph(_, _, _)
ScanGraph(graph, c, verified_ids) ==
    IF c > Len(graph) THEN NoTopic
    ELSE LET found == ScanCategory(graph[c], 1, verified_ids) IN
         IF found # NoTopic THEN found ELSE ScanGraph(graph, c + 1, verified_ids)

get_next_topic(graph, verified_mastery) == ScanGraph(graph, 1, Range(verified_mastery))

----------------------------------------------------------------------------
(* Text: a Python str as a list of characters, " " the only whitespace *)

RECURSIVE LStrip(_)
LStrip(t) == IF t # <<>> /\ Head(t) = " " THEN LStrip(Tail(t)) ELSE t

RECURSIVE RStrip(_)
RStrip(t) == IF t # <<>> /\ t[Len(t)] = " " THEN RStrip(SubSeq(t, 1, Len(t) - 1)) ELSE t

\* str.strip()
Strip(t) == RStrip(LStrip(t))

\* (mutant) str.strip() left out
NoStrip(t) == t

\* the outputs a program prints / a quiz expects
Texts == {<<>>, <<"h">>, <<"h", " ">>, <<"x">>}

----------------------------------------------------------------------------
(* models.MixedQuiz, as far as grading reads it *)

AnswerKeys == [1..NumMcq -> 0..MaxOption]

MCQ(key) == [i \in 1..Len(key) |-> [correct_answer |-> key[i]]]

MakeQuiz(topic_id, quiz_type, key, expected) ==
    [topic_id |-> topic_id, topic_title |-> TitleOf(topic_id), quiz_type |-> quiz_type,
     mcq_questions |-> MCQ(key), coding_question |-> [expected_output |-> expected]]

\* content_generator.create_fallback_quiz: correct answers 0, 3, 2 and "Hello World"
FallbackKey == <<0, 3, 2>>
\* the key of the documented scenario
ScenarioKey == <<0, 1, 0>>

QuizTypes == {"onboarding", "post_lesson"}

----------------------------------------------------------------------------
(* grader.grade_mcq_questions *)

\* (mutant) the loop counts the positions that differ
RECURSIVE CountWrong(_, _, _)
CountWrong(user_answers, mcq_questions, i) ==
    IF i > Len(user_answers) THEN 0
    ELSE (IF user_answers[i] = mcq_questions[i].correct_answer THEN 0 ELSE 1)
         + CountWrong(user_answers, mcq_questions, i + 1)

\* the loop of lines 127-133: total_correct over the zipped pairs from position i on
RECURSIVE CountCorrect(_, _, _)
CountCorrect(user_answers, mcq_questions, i) ==
    IF i > Len(user_answers) THEN 0
    ELSE (IF user_answers[i] = mcq_questions[i].correct_answer THEN 1 ELSE 0)
         + CountCorrect(user_answers, mcq_questions, i + 1)

grade_mcq_questions(user_answers, mcq_questions) ==
    IF Len(user_answers) # Len(mcq_questions)
    THEN [total_correct |-> 0, individual_results |-> [i \in 1..Len(mcq_questions) |-> FALSE]]
    ELSE [total_correct |-> CountCorrect(user_answers, mcq_questions, 1),
          individual_results |->
              [i \in 1..Len(user_answers) |-> user_answers[i] = mcq_questions[i].correct_answer]]

\* (mutant) the threshold asks for every question
McqPassedAll(mcq_score) == mcq_score >= NumMcq

\* grade_mixed_quiz line 201
McqPassed(mcq_score) == mcq_score >= McqPassMark

----------------------------------------------------------------------------
(* grader.execute_code_and_get_output against the execution service.       *)
(* The service's side of one call is an environment record:                *)
(*   key_ok      the API key can be loaded (get_judge0_key)                *)
(*   submit      "token" | "no_token" | "request_error"                    *)
(*   pending     number of polls answered with a status id <= 2            *)
(*   pending_id  that status id                                            *)
(*   after       "finished" | "request_error": the poll following them     *)
(*   status_id   the final status id, stdout, stderr, compile_output       *)

StatusDescription(id) ==
    IF id = 1 THEN "In Queue" ELSE IF id = 2 THEN "Processing"
    ELSE IF id = AcceptedId THEN "Accepted" ELSE "Error"

\* x or y or 'Execution failed' on texts (an empty text is falsy)
FirstTruthy(x, y) == IF x # <<>> THEN x ELSE IF y # <<>> THEN y ELSE <<"Execution failed">>

\* the status request of attempt i raises a RequestException
PollRaises(env, i) == i > env.pending /\ env.after = "request_error"

\* status.get('id', 0) in the answer to the status request of attempt i
StatusIdAt(env, i) == IF i <= env.pending THEN env.pending_id ELSE env.status_id

\* (mutant) the loop gives up one attempt early
RECURSIVE PollLoopShort(_, _)
PollLoopShort(env, i) ==
    IF i > MaxPolls - 1
    THEN [raised |-> FALSE, success |-> FALSE, status |-> "Execution timed out.",
          output |-> <<>>, polls |-> MaxPolls - 1]
    ELSE IF PollRaises(env, i)
    THEN [raised |-> FALSE, success |-> FALSE, status |-> "API polling failed",
          output |-> <<>>, polls |-> i]
    ELSE IF StatusIdAt(env, i) > LastPendingId
    THEN LET execution_success == StatusIdAt(env, i) = AcceptedId IN
         [raised |-> FALSE, success |-> execution_success,
          status |-> StatusDescription(StatusIdAt(env, i)),
          output |-> IF execution_success THEN Strip(env.stdout)
                     ELSE FirstTruthy(env.stderr, env.compile_output),
          polls |-> i]
    ELSE PollLoopShort(env, i + 1)

\* the poll loop from attempt i on; polls counts the status requests made
RECURSIVE PollLoop(_, _)
PollLoop(env, i) ==
    IF i > MaxPolls
    THEN [raised |-> FALSE, success |-> FALSE, status |-> "Execution timed out.",
          output |-> <<>>, polls |-> MaxPolls]
    ELSE IF PollRaises(env, i)
    THEN [raised |-> FALSE, success |-> FALSE, status |-> "API polling failed",
          output |-> <<>>, polls |-> i]
    ELSE IF StatusIdAt(env, i) > LastPendingId
    THEN LET execution_success == StatusIdAt(env, i) = AcceptedId IN
         [raised |-> FALSE, success |-> execution_success,
          status |-> StatusDescription(StatusIdAt(env, i)),
          output |-> IF execution_success THEN Strip(env.stdout)
                     ELSE FirstTruthy(env.stderr, env.compile_output),
          polls |-> i]
    ELSE PollLoop(env, i + 1)

execute_code_and_get_output(env) ==
    IF ~env.key_ok
    THEN [raised |-> TRUE, success |-> FALSE, status |-> "key", output |-> <<>>, polls |-> 0]
    ELSE IF env.submit = "no_token"
    THEN [raised |-> FALSE, success |-> FALSE, status |-> "Failed to get submission token.",
          output |-> <<>>, polls |-> 0]
    ELSE IF env.submit = "request_error"
    THEN [raised |-> FALSE, success |-> FALSE, status |-> "API request failed",
          output |-> <<>>, polls |-> 0]
    ELSE PollLoop(env, 1)

----------------------------------------------------------------------------
(* solution_validator.validate_coding_solution: the chain's verdict is the *)
(* model's ("approve" | "reject"), or the chain fails ("error") and the    *)
(* outputs are compared.                                                   *)

LlmVerdicts == {"approve", "reject", "error"}

validate_coding_solution(llm, expected_output, actual_output) ==
    IF llm = "error"
    THEN LET basic_correct == Strip(actual_output) = Strip(expected_output) IN
         [is_correct |-> basic_correct,
          feedback |-> IF basic_correct THEN "Basic validation: Correct output"
                       ELSE "Basic validation: Output mismatch"]
    ELSE [is_correct |-> llm = "approve", feedback |-> "ai_feedback"]

----------------------------------------------------------------------------
(* grader.grade_coding_question *)

Feedback(kind, status, detail) == [kind |-> kind, status |-> status, detail |-> detail]

\* (mutant) the validator is asked whatever the execution reported
grade_coding_question_always_validates(env, llm, coding_question) ==
    LET ex == execute_code_and_get_output(env) IN
    IF ex.raised
    THEN [raised |-> TRUE, is_correct |-> FALSE, feedback |-> Feedback("raised", "", <<>>),
          executed |-> TRUE, validated |-> FALSE, polls |-> ex.polls]
    ELSE LET v == validate_coding_solution(llm, coding_question.expected_output, ex.output) IN
         [raised |-> FALSE, is_correct |-> v.is_correct,
          feedback |-> Feedback(IF v.is_correct THEN "Correct!" ELSE "Incorrect.",
                                v.feedback, <<>>),
          executed |-> TRUE, validated |-> TRUE, polls |-> ex.polls]

\* returns (is_correct, feedback); raised: the exception of get_judge0_key passes through;
\* executed / validated / polls record the calls made to the execution service and to
\* the validator
grade_coding_question(env, llm, coding_question) ==
    LET ex == execute_code_and_get_output(env) IN
    IF ex.raised
    THEN [raised |-> TRUE, is_correct |-> FALSE, feedback |-> Feedback("raised", "", <<>>),
          executed |-> TRUE, validated |-> FALSE, polls |-> ex.polls]
    ELSE IF ~ex.success
    THEN [raised |-> FALSE, is_correct |-> FALSE,
          feedback |-> Feedback("Code execution failed", ex.status, ex.output),
          executed |-> TRUE, validated |-> FALSE, polls |-> ex.polls]
    ELSE LET v == validate_coding_solution(llm, coding_question.expected_output, ex.output) IN
         [raised |-> FALSE, is_correct |-> v.is_correct,
          feedback |-> Feedback(IF v.is_correct THEN "Correct!" ELSE "Incorrect.",
                                v.feedback, <<>>),
          executed |-> TRUE, validated |-> TRUE, polls |-> ex.polls]

----------------------------------------------------------------------------
(* grader.active_quizzes: a Python dict, which keeps its keys in insertion *)
(* order; an entry is [key, quiz].                                         *)

\* f"{user_id}:{topic_id}:{quiz_type}"
QuizKey(user_id, topic_id, quiz_type) == user_id \o ":" \o topic_id \o ":" \o quiz_type

\* active_quizzes[key] = quiz: a new key goes last, a known key keeps its place
DictSet(dict, key, value) ==
    IF \E i \in 1..Len(dict) : dict[i].key = key
    THEN [i \in 1..Len(dict) |->
              IF dict[i].key = key THEN [key |-> key, quiz |-> value] ELSE dict[i]]
    ELSE Append(dict, [key |-> key, quiz |-> value])

store_quiz_for_grading(dict, quiz, user_id) ==
    DictSet(dict, QuizKey(user_id, quiz.topic_id, quiz.quiz_type), quiz)

NoQuiz == MakeQuiz("None", "None", <<>>, <<>>)

\* active_quizzes.get(key)
get_stored_quiz(dict, user_id, topic_id, quiz_type) ==
    LET key == QuizKey(user_id, topic_id, quiz_type)
        hits == {i \in 1..Len(dict) : dict[i].key = key}
    IN IF hits = {} THEN NoQuiz ELSE dict[CHOOSE i \in hits : TRUE].quiz

----------------------------------------------------------------------------
(* grader.grade_mixed_quiz *)

\* the loop of lines 182-185: position of the first entry of the dict whose quiz has
\* the submission's topic and kind, 0 when there is none
FindStored(dict, submission) ==
    LET hits == {i \in 1..Len(dict) :
                    /\ dict[i].quiz.topic_id = submission.topic_id
                    /\ dict[i].quiz.quiz_type = submission.quiz_type}
    IN IF hits = {} THEN 0 ELSE CHOOSE i \in hits : \A j \in hits : i <= j

\* (mutant) both parts are not required: one passed part is enough
OverallPassedEither(mcq_passed, coding_passed) == mcq_passed \/ coding_passed

\* line 210
OverallPassed(mcq_passed, coding_passed) == mcq_passed /\ coding_passed

QuizResult(raised, topic_id, mcq_score, mcq_passed, coding, overall_passed, message, graded_key) ==
    [raised |-> raised, topic_id |-> topic_id, mcq_score |-> mcq_score,
     mcq_passed |-> mcq_passed, coding_passed |-> coding.is_correct,
     overall_passed |-> overall_passed, coding_feedback |-> coding.feedback,
     message |-> message,
     \* not fields of the response: the calls made and the dict entry graded against
     executed |-> coding.executed, validated |-> coding.validated, graded_key |-> graded_key]

NotGraded ==
    [raised |-> FALSE, is_correct |-> FALSE,
     feedback |-> Feedback("Error: Quiz not found for grading", "", <<>>),
     executed |-> FALSE, validated |-> FALSE, polls |-> 0]

\* submission.coding_answer stands for the code by what running and validating it yields
grade_mixed_quiz(dict, submission) ==
    LET at == FindStored(dict, submission) IN
    IF at = 0
    THEN QuizResult(FALSE, submission.topic_id, 0, FALSE, NotGraded, FALSE,
                    "Grading failed - quiz not found", "")
    ELSE LET stored_quiz == dict[at].quiz
             mcq == grade_mcq_questions(submission.mcq_answers, stored_quiz.mcq_questions)
             mcq_score == mcq.total_correct
             mcq_passed == McqPassed(mcq_score)
             coding == grade_coding_question(submission.coding_answer.env,
                                             submission.coding_answer.llm,
                                             stored_quiz.coding_question)
         IN QuizResult(coding.raised, submission.topic_id, mcq_score, mcq_passed, coding,
                       OverallPassed(mcq_passed, coding.is_correct), "MCQ/Coding",
                       dict[at].key)

\* grader.grade_submission (legacy): (is_correct, status, error_details)
grade_submission(env) ==
    LET ex == execute_code_and_get_output(env) IN
    [raised |-> ex.raised, is_correct |-> ex.success, status |-> ex.status,
     error_details |-> IF ex.success THEN <<>> ELSE ex.output]

----------------------------------------------------------------------------
(* Resolver runs: a graph and a mastered list are drawn, get_next_topic is *)
(* applied, and the caller may add the returned topic to the mastered list *)
(* and ask again.                                                          *)

NotAsked == [title |-> "NotAsked", id |-> "NotAsked"]

\* the lists a resolver run starts from: one per subset of the ids
RECURSIVE SetToList(_)
SetToList(S) ==
    IF S = {} THEN <<>>
    ELSE LET x == CHOOSE y \in S : \A z \in S : Rank(y) <= Rank(z) IN <<x>> \o SetToList(S \ {x})

MasteredInputs == {SetToList(S) : S \in SUBSET AllIds}

Idle == [op |-> "none", user |-> "", status |-> 0, req |-> <<>>, body |-> <<>>]
NoGrading == [fn |-> "none", args |-> <<>>, ret |-> <<>>]

InitTopic ==
    /\ knowledge_graph \in Graphs
    /\ mastered \in MasteredInputs
    /\ next_topic = NotAsked
    /\ db = <<>>
    /\ active_quizzes = <<>>
    /\ resp = Idle
    /\ grading = NoGrading
    /\ requests = <<>>

AskNextTopic ==
    /\ next_topic = NotAsked
    /\ next_topic' = get_next_topic(knowledge_graph, mastered)
    /\ UNCHANGED <<knowledge_graph, db, active_quizzes, resp, mastered, grading, requests>>

MasterReturned ==
    /\ next_topic \notin {NotAsked, NoTopic}
    /\ mastered' = Append(mastered, next_topic.id)
    /\ next_topic' = NotAsked
    /\ UNCHANGED <<knowledge_graph, db, active_quizzes, resp, grading, requests>>

NextTopic == AskNextTopic \/ MasterReturned

SpecTopic == InitTopic /\ [][NextTopic]_vars

\* the graph entry of a returned topic
EntryOf(graph, id) == CHOOSE t \in Range(Flatten(graph)) : t.id = id

Returned == next_topic \notin {NotAsked, NoTopic}

\* positions, in enumeration order, of the topics not in M whose prerequisites are all in M
Eligible(graph, M) ==
    {i \in 1..Len(Flatten(graph)) :
        /\ Flatten(graph)[i].id \notin M
        /\ Range(Flatten(graph)[i].prerequisites) \subseteq M}

FirstOf(S) == CHOOSE i \in S : \A j \in S : i <= j

\* C1: a topic returned by get_next_topic is not in the mastered set M and every one
\* of its prerequisites is in M.
C1_ReturnedIsUnlocked ==
    Returned =>
        /\ next_topic.id \in GraphIds(knowledge_graph)
        /\ next_topic.id \notin Range(mastered)
        /\ Range(EntryOf(knowledge_graph, next_topic.id).prerequisites) \subseteq Range(mastered)

\* a topic with two prerequisites was returned for a mastered set holding both
C1_Witness ==
    /\ Returned
    /\ Cardinality(Range(EntryOf(knowledge_graph, next_topic.id).prerequisites)) = 2
    /\ Len(mastered) >= 2

\* C2: get_next_topic returns the first topic in enumeration order that is not in M and
\* has its prerequisites in M, and None exactly when there is no such topic: so None when
\* M holds every topic id, and a topic when an unmastered topic has no prerequisites.
C2_FirstEligibleOrNone ==
    next_topic # NotAsked =>
        LET M == Range(mastered)
            flat == Flatten(knowledge_graph)
            el == Eligible(knowledge_graph, M)
        IN /\ (el = {}) <=> (next_topic = NoTopic)
           /\ el # {} => next_topic = [title |-> flat[FirstOf(el)].title,
                                        id |-> flat[FirstOf(el)].id]
           /\ GraphIds(knowledge_graph) \subseteq M => next_topic = NoTopic
           /\ (\E i \in 1..Len(flat) : flat[i].id \notin M /\ flat[i].prerequisites = <<>>)
                 => next_topic # NoTopic

\* the topic returned is the third of the graph, in its second category, after an
\* unmastered topic that is still locked and a mastered one
C2_Witness ==
    /\ Returned
    /\ Len(knowledge_graph[1]) = 1
    /\ next_topic.id = TopicOrder[3]
    /\ TopicOrder[1] \notin Range(mastered)
    /\ TopicOrder[2] \in Range(mastered)

\* the completion signal for a mastered set that holds every topic id
C2_WitnessNone ==
    /\ next_topic = NoTopic
    /\ GraphIds(knowledge_graph) \subseteq Range(mastered)

\* ids of the topics that list a prerequisite which is the id of no topic of the graph
Blocked(graph) ==
    {t.id : t \in {e \in Range(Flatten(graph)) :
                      ~(Range(e.prerequisites) \subseteq GraphIds(graph))}}

\* C15: if a topic T lists a prerequisite id that is the id of no topic of the graph,
\* then for every mastered set M of graph topic ids get_next_topic never returns T, the
\* call yields a topic or None (no error), and the answer is the first topic, among those
\* that list no missing id, that is not in M and has its prerequisites in M.
C15_MissingPrerequisiteBlocks ==
    (next_topic # NotAsked /\ Range(mastered) \subseteq GraphIds(knowledge_graph)) =>
        LET M == Range(mastered)
            flat == Flatten(knowledge_graph)
            free == {i \in 1..Len(flat) :
                        /\ flat[i].id \notin Blocked(knowledge_graph)
                        /\ flat[i].id \notin M
                        /\ Range(flat[i].prerequisites) \subseteq M}
        IN /\ next_topic.id \notin Blocked(knowledge_graph)
           /\ next_topic = NoTopic \/ next_topic.id \in GraphIds(knowledge_graph)
           /\ IF free = {} THEN next_topic = NoTopic
              ELSE next_topic = [title |-> flat[FirstOf(free)].title,
                                 id |-> flat[FirstOf(free)].id]

\* a topic was returned although an earlier, unmastered topic of the graph lists a
\* missing prerequisite
C15_Witness ==
    /\ Returned
    /\ Range(mastered) \subseteq GraphIds(knowledge_graph)
    /\ \E i, j \in 1..Len(Flatten(knowledge_graph)) :
          /\ i < j
          /\ Flatten(knowledge_graph)[i].id \in Blocked(knowledge_graph)
          /\ Flatten(knowledge_graph)[i].id \notin Range(mastered)
          /\ Flatten(knowledge_graph)[j].id = next_topic.id

\* every topic of the graph is blocked or mastered: the completion signal, no error
C15_WitnessNone ==
    /\ next_topic = NoTopic
    /\ Range(mastered) \subseteq GraphIds(knowledge_graph)
    /\ Blocked(knowledge_graph) # {}
    /\ ~(GraphIds(knowledge_graph) \subseteq Range(mastered))

\* the caller keeps asking and adding the returned topic for as long as one is returned
SpecTopicFair == SpecTopic /\ WF_vars(NextTopic)

\* the ids reached from id by following prerequisites, at most n edges deep
RECURSIVE Requires(_, _, _)
Requires(graph, id, n) ==
    IF n = 0 \/ id \notin GraphIds(graph) THEN {}
    ELSE LET direct == Range(EntryOf(graph, id).prerequisites) IN
         direct \cup UNION {Requires(graph, p, n - 1) : p \in direct}

\* no topic requires itself, directly or through other topics
Acyclic(graph) ==
    \A id \in GraphIds(graph) : id \notin Requires(graph, id, Len(Flatten(graph)))

\* an acyclic graph in which every prerequisite id is the id of a topic of the graph
WellFormed(graph) == Acyclic(graph) /\ Blocked(graph) = {}

\* C24: for an acyclic graph whose prerequisite ids are all topic ids, get_next_topic
\* returns None only when M holds every topic id, every returned topic is one unmastered
\* topic of the graph that the caller adds to M, and repeating this reaches the completion
\* signal: after exactly as many steps as there were unmastered topics.
C24_ProgressToCompletion ==
    /\ [](WellFormed(knowledge_graph) /\ next_topic = NoTopic
            => GraphIds(knowledge_graph) \subseteq Range(mastered))
    /\ [][(WellFormed(knowledge_graph) /\ mastered' # mastered) =>
             /\ next_topic.id \in GraphIds(knowledge_graph) \ Range(mastered)
             /\ mastered' = Append(mastered, next_topic.id)
         ]_vars
    /\ (WellFormed(knowledge_graph) ~> next_topic = NoTopic)

\* the completion signal for the chain A <- B <- C, reached from M = {B} in two steps:
\* A was returned and added, then C
C24_Witness ==
    /\ next_topic = NoTopic
    /\ WellFormed(knowledge_graph)
    /\ Len(Flatten(knowledge_graph)) = 3
    /\ Flatten(knowledge_graph)[2].prerequisites = <<"A">>
    /\ Flatten(knowledge_graph)[3].prerequisites = <<"B">>
    /\ mastered = <<"B", "A", "C">>

----------------------------------------------------------------------------
(* Grader runs: the grading functions applied to drawn arguments.          *)

\* what the execution service may do during one call
PollingEnvs ==
    [key_ok : {TRUE}, submit : {"token"}, pending : 0..MaxPending, pending_id : {1, 2},
     after : {"finished", "request_error"}, status_id : {AcceptedId, 6},
     stdout : Texts, stderr : {<<>>, <<"e">>}, compile_output : {<<>>, <<"c">>}]

EnvAccepted(pending, stdout) ==
    [key_ok |-> TRUE, submit |-> "token", pending |-> pending, pending_id |-> 1,
     after |-> "finished", status_id |-> AcceptedId,
     stdout |-> stdout, stderr |-> <<>>, compile_output |-> <<>>]

EnvNoKey == [EnvAccepted(0, <<>>) EXCEPT !.key_ok = FALSE]
EnvNoToken == [EnvAccepted(0, <<>>) EXCEPT !.submit = "no_token"]
EnvSubmitError == [EnvAccepted(0, <<>>) EXCEPT !.submit = "request_error"]
EnvRuntimeError == [EnvAccepted(1, <<>>) EXCEPT !.status_id = 6, !.stderr = <<"e">>]
EnvNeverDone == EnvAccepted(MaxPolls, <<"h">>)

ExecEnvs == PollingEnvs \cup {EnvNoKey, EnvNoToken, EnvSubmitError}

\* the environments of the runs that also draw a submission
FewEnvs == {EnvAccepted(0, <<"h", " ">>), EnvAccepted(2, <<"x">>), EnvRuntimeError,
            EnvNeverDone, EnvNoKey}

\* mcq_answers of a submission: 3 ints (models.py:66 fixes the length, not the values)
AnswerLists == [1..NumMcq -> 0..MaxAnswer]
\* user_answers handed to grade_mcq_questions directly: any short list
AnyAnswerLists == SeqsUpTo(0..MaxAnswer, NumMcq)

\* a coding answer, as the execution it leads to and the validator's verdict on it
CodingAnswer(env, llm) == [env |-> env, llm |-> llm]

Submission(topic_id, quiz_type, mcq_answers, coding_answer) ==
    [topic_id |-> topic_id, quiz_type |-> quiz_type, mcq_answers |-> mcq_answers,
     coding_answer |-> coding_answer]

\* contents of active_quizzes the mixed-quiz runs start from
Stored(user_id, topic_id, quiz_type, key) ==
    [key |-> QuizKey(user_id, topic_id, quiz_type),
     quiz |-> MakeQuiz(topic_id, quiz_type, key, <<"h">>)]

StoredDicts ==
    { <<>>,
      <<Stored("u1", "A", "onboarding", FallbackKey)>>,
      <<Stored("u1", "A", "onboarding", FallbackKey),
        Stored("u2", "A", "onboarding", ScenarioKey)>>,
      <<Stored("u2", "A", "onboarding", ScenarioKey),
        Stored("u1", "B", "post_lesson", <<1, 1, 1>>)>> }


InitGrade ==
    /\ grading = NoGrading
    /\ knowledge_graph = ScenarioGraph
    /\ db = EmptyDb
    /\ active_quizzes = <<>>
    /\ resp = Idle
    /\ mastered = <<>>
    /\ next_topic = NotAsked
    /\ requests = <<>>

Call(fn, args, ret) == [fn |-> fn, args |-> args, ret |-> ret]

CallGradeMcq ==
    /\ grading = NoGrading
    /\ \E a \in AnyAnswerLists, k \in AnswerKeys :
          grading' = Call("grade_mcq_questions",
                          [user_answers |-> a, mcq_questions |-> MCQ(k)],
                          grade_mcq_questions(a, MCQ(k)))
    /\ UNCHANGED <<knowledge_graph, db, active_quizzes, resp, mastered, next_topic, requests>>

CallExecute ==
    /\ grading = NoGrading
    /\ \E env \in ExecEnvs :
          grading' = Call("execute_code_and_get_output", [env |-> env],
                          execute_code_and_get_output(env))
    /\ UNCHANGED <<knowledge_graph, db, active_quizzes, resp, mastered, next_topic, requests>>

CallGradeCoding ==
    /\ grading = NoGrading
    /\ \E env \in ExecEnvs, llm \in LlmVerdicts, expected \in Texts :
          grading' = Call("grade_coding_question",
                          [env |-> env, llm |-> llm,
                           coding_question |-> [expected_output |-> expected]],
                          grade_coding_question(env, llm, [expected_output |-> expected]))
    /\ UNCHANGED <<knowledge_graph, db, active_quizzes, resp, mastered, next_topic, requests>>

CallGradeMixed ==
    /\ grading = NoGrading
    /\ \E dict \in StoredDicts, t \in {"A", "B"}, qt \in QuizTypes, a \in AnswerLists,
          env \in FewEnvs, llm \in LlmVerdicts :
          grading' = Call("grade_mixed_quiz",
                          [dict |-> dict,
                           submission |-> Submission(t, qt, a, CodingAnswer(env, llm))],
                          grade_mixed_quiz(dict, Submission(t, qt, a, CodingAnswer(env, llm))))
    /\ UNCHANGED <<knowledge_graph, db, active_quizzes, resp, mastered, next_topic, requests>>

\* the call has returned; the next one may be drawn
ReturnToCaller ==
    /\ grading # NoGrading
    /\ grading' = NoGrading
    /\ UNCHANGED <<knowledge_graph, db, active_quizzes, resp, mastered, next_topic, requests>>

NextGrade == CallGradeMcq \/ CallExecute \/ CallGradeCoding \/ CallGradeMixed \/ ReturnToCaller

SpecGrade == InitGrade /\ [][NextGrade]_vars

\* number of positions where the submitted index equals the stored correct index
Matches(user_answers, mcq_questions) ==
    Cardinality({i \in 1..Len(mcq_questions) :
                    i <= Len(user_answers) /\ user_answers[i] = mcq_questions[i].correct_answer})

\* the entry of a dict a mixed-quiz run was graded against
GradedEntry(dict, key) == dict[CHOOSE i \in 1..Len(dict) : dict[i].key = key]

\* C8: for 3 submitted answers and a stored quiz, mcq_score is the number of positions
\* where the submitted index equals the stored correct index, and mcq_passed is true
\* exactly when mcq_score >= 2; answers [0,1,2] against correct [0,1,0] score 2 and pass.
C8_McqScoreAndThreshold ==
    /\ (grading.fn = "grade_mcq_questions" /\ Len(grading.args.user_answers) = NumMcq) =>
          /\ grading.ret.total_correct
                = Matches(grading.args.user_answers, grading.args.mcq_questions)
          /\ (grading.args.user_answers = <<0, 1, 2>>
                /\ grading.args.mcq_questions = MCQ(ScenarioKey))
                => grading.ret.total_correct = 2
    /\ (grading.fn = "grade_mixed_quiz" /\ grading.ret.graded_key # "") =>
          LET stored_quiz == GradedEntry(grading.args.dict, grading.ret.graded_key).quiz IN
          /\ grading.ret.mcq_score
                = Matches(grading.args.submission.mcq_answers, stored_quiz.mcq_questions)
          /\ grading.ret.mcq_passed <=> grading.ret.mcq_score >= 2
          /\ (grading.args.submission.mcq_answers = <<0, 1, 2>>
                /\ stored_quiz.mcq_questions = MCQ(ScenarioKey))
                => (grading.ret.mcq_score = 2 /\ grading.ret.mcq_passed)

\* the documented scenario, graded through grade_mixed_quiz
C8_Witness ==
    /\ grading.fn = "grade_mixed_quiz"
    /\ grading.ret.graded_key # ""
    /\ grading.args.submission.mcq_answers = <<0, 1, 2>>
    /\ GradedEntry(grading.args.dict, grading.ret.graded_key).quiz.mcq_questions
          = MCQ(ScenarioKey)
    /\ grading.ret.mcq_score = 2
    /\ grading.ret.mcq_passed

C9_WitnessError ==
    /\ grading.fn = "grade_coding_question"
    /\ grading.args.env.status_id = 6
    /\ grading.ret.feedback.detail = <<"e">>
    /\ ~grading.ret.validated

C16_WitnessLastPoll ==
    /\ grading.fn = "execute_code_and_get_output"
    /\ grading.args.env.pending = 9
    /\ grading.ret.polls = 10
    /\ grading.ret.success

----------------------------------------------------------------------------
(* The learner profile store: Firestore collection 'users'.                *)

\* models.UserProfile as stored by model_dump(); the fields no handler branches on
\* (userName, goal) are left out
Profile(userId, tags, claimed, verified, struggling, complete) ==
    [exists |-> TRUE, userId |-> userId, tags |-> tags,
     claimed_mastery |-> claimed, verified_mastery |-> verified,
     struggling_with |-> struggling, onboarding_complete |-> complete]

\* firestore.ArrayUnion([x]): x is appended unless the array already holds it
ArrayUnion(array, x) == IF x \in Range(array) THEN array ELSE Append(array, x)

\* firestore.ArrayRemove([x]): every occurrence of x is removed
ArrayRemove(array, x) == SelectSeq(array, LAMBDA e : e # x)

----------------------------------------------------------------------------
(* student_model.get_next_claimed_topic; pick is the element next(iter(set)) yields *)

\* (mutant) the topics marked as struggling are not taken out
UnprocessedKeepsStruggling(profile) ==
    Range(profile.claimed_mastery) \ Range(profile.verified_mastery)

Unprocessed(profile) ==
    (Range(profile.claimed_mastery) \ Range(profile.verified_mastery))
        \ Range(profile.struggling_with)

TitleLookup(graph, id) ==
    LET hits == {i \in 1..Len(Flatten(graph)) : Flatten(graph)[i].id = id} IN
    IF hits = {} THEN NoTopic
    ELSE LET i == CHOOSE i \in hits : \A j \in hits : i <= j IN
         [title |-> Flatten(graph)[i].title, id |-> id]

get_next_claimed_topic(graph, profile, pick) ==
    IF Unprocessed(profile) = {} THEN NoTopic ELSE TitleLookup(graph, pick)

\* the values next(iter(unprocessed_claimed)) can yield
Picks(profile) == IF Unprocessed(profile) = {} THEN {"None"} ELSE Unprocessed(profile)

----------------------------------------------------------------------------
(* student_model.update_mastery_verification / update_knowledge_state_mixed *)

\* lines 87-97: the completion check after the update
CheckOnboardingComplete(doc) ==
    IF Len(doc.verified_mastery) + Len(doc.struggling_with) >= Len(doc.claimed_mastery)
    THEN [doc EXCEPT !.onboarding_complete = TRUE]
    ELSE doc

\* (mutant) the two branches of the verification update swapped
update_mastery_verification_swapped(store, user_id, topic_id, quiz_passed) ==
    IF ~store[user_id].exists THEN store
    ELSE LET updated ==
                 IF quiz_passed
                 THEN [store[user_id] EXCEPT !.struggling_with = ArrayUnion(@, topic_id)]
                 ELSE [store[user_id] EXCEPT !.verified_mastery = ArrayUnion(@, topic_id)]
         IN [store EXCEPT ![user_id] = CheckOnboardingComplete(updated)]

\* (mutant) a passed topic is moved: it is also taken out of claimed_mastery
update_mastery_verification_moves(store, user_id, topic_id, quiz_passed) ==
    IF ~store[user_id].exists THEN store
    ELSE LET updated ==
                 IF quiz_passed
                 THEN [store[user_id] EXCEPT !.verified_mastery = ArrayUnion(@, topic_id),
                                             !.claimed_mastery = ArrayRemove(@, topic_id)]
                 ELSE [store[user_id] EXCEPT !.struggling_with = ArrayUnion(@, topic_id)]
         IN [store EXCEPT ![user_id] = CheckOnboardingComplete(updated)]

\* user_ref.update on a missing document raises NotFound, which the except clause swallows
update_mastery_verification(store, user_id, topic_id, quiz_passed) ==
    IF ~store[user_id].exists THEN store
    ELSE LET updated ==
                 IF quiz_passed
                 THEN [store[user_id] EXCEPT !.verified_mastery = ArrayUnion(@, topic_id)]
                 ELSE [store[user_id] EXCEPT !.struggling_with = ArrayUnion(@, topic_id)]
         IN [store EXCEPT ![user_id] = CheckOnboardingComplete(updated)]

\* (mutant) a passed quiz takes the topic out of struggling_with and records nothing
update_knowledge_state_mixed_remove_only(store, user_id, topic_id, quiz_passed) ==
    IF ~store[user_id].exists THEN store
    ELSE [store EXCEPT ![user_id] =
              IF quiz_passed
              THEN [@ EXCEPT !.struggling_with = ArrayRemove(@, topic_id)]
              ELSE [@ EXCEPT !.struggling_with = ArrayUnion(@, topic_id)]]

\* (mutant) a failed quiz also takes the topic out of verified_mastery
update_knowledge_state_mixed_demotes(store, user_id, topic_id, quiz_passed) ==
    IF ~store[user_id].exists THEN store
    ELSE [store EXCEPT ![user_id] =
              IF quiz_passed
              THEN [@ EXCEPT !.verified_mastery = ArrayUnion(@, topic_id),
                             !.struggling_with = ArrayRemove(@, topic_id)]
              ELSE [@ EXCEPT !.struggling_with = ArrayUnion(@, topic_id),
                             !.verified_mastery = ArrayRemove(@, topic_id)]]

update_knowledge_state_mixed(store, user_id, topic_id, quiz_passed) ==
    IF ~store[user_id].exists THEN store
    ELSE [store EXCEPT ![user_id] =
              IF quiz_passed
              THEN [@ EXCEPT !.verified_mastery = ArrayUnion(@, topic_id),
                             !.struggling_with = ArrayRemove(@, topic_id)]
              ELSE [@ EXCEPT !.struggling_with = ArrayUnion(@, topic_id)]]

\* legacy wrapper
update_knowledge_state(store, user_id, topic_id, was_correct) ==
    update_knowledge_state_mixed(store, user_id, topic_id, was_correct)

----------------------------------------------------------------------------
(* ai_tutor: quiz generation.  gen is what content_generator.generate_mixed_quiz *)
(* produced: the key and expected output of the model's quiz or of the fallback. *)

get_onboarding_quiz(graph, profile, pick, gen) ==
    LET next_claimed_topic == get_next_claimed_topic(graph, profile, pick) IN
    IF next_claimed_topic = NoTopic THEN NoQuiz
    ELSE MakeQuiz(next_claimed_topic.id, "onboarding", gen.key, gen.expected)

get_post_lesson_quiz(topic_id, gen) == MakeQuiz(topic_id, "post_lesson", gen.key, gen.expected)

----------------------------------------------------------------------------
(* ai_tutor.run_learning_loop.  The collaborators' side of one run is a    *)
(* record:                                                                 *)
(*   drafts    what content_generator.generate_content returns at each     *)
(*             attempt: (lesson_content, quiz_challenge), or it raises     *)
(*   chain_ok  the validation chain can be built (get_validation_chain)    *)
(*   verdicts  the validation chain's answer at each attempt:              *)
(*             "approve" | "reject" | "error" (the chain call fails)       *)

\* ai_tutor.py:87 max_retries = 2
MaxRetries == 2

Lesson(content, quiz, topic_id) == [content |-> content, quiz |-> quiz, topic_id |-> topic_id]

\* Python None for a lesson
NoLesson == Lesson("None", "None", "None")

Apology ==
    "I'm sorry, I'm having trouble generating a lesson for you right now. Please try again later."

Draft(content, quiz) == [raised |-> FALSE, content |-> content, quiz |-> quiz]
DraftRaises == [raised |-> TRUE, content |-> "", quiz |-> ""]

\* content_personalizer.personalize_and_validate: (is_approved, feedback)
personalize_and_validate(chain_ok, tags, verdict) ==
    IF ~chain_ok THEN [raised |-> TRUE, is_approved |-> FALSE, feedback |-> "raised"]
    ELSE IF tags = <<>>
    THEN [raised |-> FALSE, is_approved |-> TRUE,
          feedback |-> "No specific preferences provided."]
    ELSE IF verdict = "error"
    THEN [raised |-> FALSE, is_approved |-> FALSE,
          feedback |-> "There was an error parsing the validation response."]
    ELSE [raised |-> FALSE, is_approved |-> verdict = "approve", feedback |-> "feedback"]

LoopResult(raised, final_content, final_quiz, attempts) ==
    [raised |-> raised, final_content |-> final_content, final_quiz |-> final_quiz,
     attempts |-> attempts]

\* (mutant) a rejected draft does not replace a draft already kept
RECURSIVE AttemptLoopKeepsFirst(_, _, _, _, _)
AttemptLoopKeepsFirst(attempt, env, tags, final_content, final_quiz) ==
    IF attempt > MaxRetries THEN LoopResult(FALSE, final_content, final_quiz, MaxRetries)
    ELSE LET draft == env.drafts[attempt] IN
         IF draft.raised THEN LoopResult(TRUE, final_content, final_quiz, attempt)
         ELSE LET v == personalize_and_validate(env.chain_ok, tags, env.verdicts[attempt]) IN
              IF v.raised THEN LoopResult(TRUE, final_content, final_quiz, attempt)
              ELSE IF v.is_approved THEN LoopResult(FALSE, draft.content, draft.quiz, attempt)
              ELSE IF final_content # ""
              THEN AttemptLoopKeepsFirst(attempt + 1, env, tags, final_content, final_quiz)
              ELSE AttemptLoopKeepsFirst(attempt + 1, env, tags, draft.content, draft.quiz)

\* the loop of lines 89-108 from attempt `attempt` on; attempts counts the calls of
\* generate_content
RECURSIVE AttemptLoop(_, _, _, _, _)
AttemptLoop(attempt, env, tags, final_content, final_quiz) ==
    IF attempt > MaxRetries THEN LoopResult(FALSE, final_content, final_quiz, MaxRetries)
    ELSE LET draft == env.drafts[attempt] IN
         IF draft.raised THEN LoopResult(TRUE, final_content, final_quiz, attempt)
         ELSE LET v == personalize_and_validate(env.chain_ok, tags, env.verdicts[attempt]) IN
              IF v.raised THEN LoopResult(TRUE, final_content, final_quiz, attempt)
              ELSE IF v.is_approved THEN LoopResult(FALSE, draft.content, draft.quiz, attempt)
              ELSE AttemptLoop(attempt + 1, env, tags, draft.content, draft.quiz)

\* returns the Lesson or None; raised: an exception of the generator or of
\* get_validation_chain passes through
run_learning_loop(graph, profile, env) ==
    IF ~profile.onboarding_complete
    THEN [raised |-> FALSE, lesson |-> NoLesson, attempts |-> 0]
    ELSE LET next_topic_info == get_next_topic(graph, profile.verified_mastery) IN
         IF next_topic_info = NoTopic
         THEN [raised |-> FALSE, lesson |-> NoLesson, attempts |-> 0]
         ELSE LET loop == AttemptLoop(1, env, profile.tags, "", "") IN
              IF loop.raised
              THEN [raised |-> TRUE, lesson |-> NoLesson, attempts |-> loop.attempts]
              ELSE IF loop.final_content = ""
              THEN [raised |-> FALSE, lesson |-> Lesson(Apology, "", next_topic_info.id),
                    attempts |-> loop.attempts]
              ELSE [raised |-> FALSE,
                    lesson |-> Lesson(loop.final_content, loop.final_quiz, next_topic_info.id),
                    attempts |-> loop.attempts]

----------------------------------------------------------------------------
(* main.py: the route handlers, one action each *)

Response(op, user, status, req, body) ==
    [op |-> op, user |-> user, status |-> status, req |-> req, body |-> body]

Untouched == <<knowledge_graph, mastered, next_topic, grading, requests>>

\* (mutant) POST /onboard without the check for a stored profile
onboard_user_overwrites(profile) ==
    /\ db' = [db EXCEPT ![profile.userId] = [profile EXCEPT !.onboarding_complete = FALSE]]
    /\ resp' = Response("onboard_user", profile.userId, 201, profile, <<>>)
    /\ UNCHANGED active_quizzes
    /\ UNCHANGED Untouched

\* POST /onboard
onboard_user(profile) ==
    /\ IF db[profile.userId].exists
       THEN /\ resp' = Response("onboard_user", profile.userId, 409, <<>>, <<>>)
            /\ UNCHANGED db
       ELSE /\ db' = [db EXCEPT ![profile.userId] = [profile EXCEPT !.onboarding_complete = FALSE]]
            /\ resp' = Response("onboard_user", profile.userId, 201, profile, <<>>)
    /\ UNCHANGED active_quizzes
    /\ UNCHANGED Untouched

\* GET /users/{user_id}
get_user_profile(user_id) ==
    /\ IF ~db[user_id].exists
       THEN resp' = Response("get_user_profile", user_id, 404, <<>>, NoDoc)
       ELSE resp' = Response("get_user_profile", user_id, 200, <<>>, db[user_id])
    /\ UNCHANGED <<db, active_quizzes>>
    /\ UNCHANGED Untouched

\* (mutant) GET /verify_mastery/{user_id} without the onboarding_complete check
get_mastery_verification_quiz_ungated(user_id, pick, gen) ==
    /\ IF ~db[user_id].exists
       THEN /\ resp' = Response("get_mastery_verification_quiz", user_id, 404, <<>>, NoQuiz)
            /\ UNCHANGED active_quizzes
       ELSE LET quiz == get_onboarding_quiz(knowledge_graph, db[user_id], pick, gen) IN
            IF quiz = NoQuiz
            THEN /\ resp' = Response("get_mastery_verification_quiz", user_id, 500, <<>>, NoQuiz)
                 /\ UNCHANGED active_quizzes
            ELSE /\ active_quizzes' = store_quiz_for_grading(active_quizzes, quiz, user_id)
                 /\ resp' = Response("get_mastery_verification_quiz", user_id, 200, <<>>, quiz)
    /\ UNCHANGED db
    /\ UNCHANGED Untouched

\* GET /verify_mastery/{user_id}
get_mastery_verification_quiz(user_id, pick, gen) ==
    /\ IF ~db[user_id].exists
       THEN /\ resp' = Response("get_mastery_verification_quiz", user_id, 404, <<>>, NoQuiz)
            /\ UNCHANGED active_quizzes
       ELSE IF db[user_id].onboarding_complete
       THEN /\ resp' = Response("get_mastery_verification_quiz", user_id, 400, <<>>, NoQuiz)
            /\ UNCHANGED active_quizzes
       ELSE LET quiz == get_onboarding_quiz(knowledge_graph, db[user_id], pick, gen) IN
            IF quiz = NoQuiz
            \* the HTTPException(404) is raised inside the try and caught by
            \* except Exception, which answers 500
            THEN /\ resp' = Response("get_mastery_verification_quiz", user_id, 500, <<>>, NoQuiz)
                 /\ UNCHANGED active_quizzes
            ELSE /\ active_quizzes' = store_quiz_for_grading(active_quizzes, quiz, user_id)
                 /\ resp' = Response("get_mastery_verification_quiz", user_id, 200, <<>>, quiz)
    /\ UNCHANGED db
    /\ UNCHANGED Untouched

\* POST /submit_mastery_quiz/{user_id}
submit_mastery_verification_quiz(user_id, submission) ==
    /\ IF ~db[user_id].exists
       THEN /\ resp' = Response("submit_mastery_verification_quiz", user_id, 404, submission,
                                 NotGraded)
            /\ UNCHANGED db
       ELSE LET result == grade_mixed_quiz(active_quizzes, submission) IN
            IF result.raised
            THEN /\ resp' = Response("submit_mastery_verification_quiz", user_id, 500,
                                      submission, result)
                 /\ UNCHANGED db
            ELSE /\ db' = update_mastery_verification(db, user_id, submission.topic_id,
                                                      result.overall_passed)
                 /\ resp' = Response("submit_mastery_verification_quiz", user_id, 200,
                                      submission, result)
    /\ UNCHANGED active_quizzes
    /\ UNCHANGED Untouched

\* GET /lesson/{user_id}
get_lesson(user_id, env) ==
    /\ IF ~db[user_id].exists
       THEN resp' = Response("get_lesson", user_id, 404, <<>>, NoLesson)
       ELSE IF ~db[user_id].onboarding_complete
       THEN resp' = Response("get_lesson", user_id, 400, <<>>, NoLesson)
       ELSE LET run == run_learning_loop(knowledge_graph, db[user_id], env) IN
            \* an exception of the loop, and the HTTPException(404) raised inside the try
            \* for a None lesson, are both caught by except Exception, which answers 500
            IF run.raised \/ run.lesson = NoLesson
            THEN resp' = Response("get_lesson", user_id, 500, <<>>, NoLesson)
            ELSE resp' = Response("get_lesson", user_id, 200, <<>>, run.lesson)
    /\ UNCHANGED <<db, active_quizzes>>
    /\ UNCHANGED Untouched

\* GET /post_lesson_quiz/{user_id}?topic_id=
get_post_lesson_quiz_route(user_id, topic_id, gen) ==
    /\ IF ~db[user_id].exists
       THEN resp' = Response("get_post_lesson_quiz", user_id, 404, [topic_id |-> topic_id], NoQuiz)
       ELSE resp' = Response("get_post_lesson_quiz", user_id, 200, [topic_id |-> topic_id],
                             get_post_lesson_quiz(topic_id, gen))
    /\ UNCHANGED <<db, active_quizzes>>
    /\ UNCHANGED Untouched

\* POST /submit_quiz/{user_id}
submit_quiz(user_id, submission) ==
    /\ LET result == grade_mixed_quiz(active_quizzes, submission) IN
       IF result.raised
       THEN /\ resp' = Response("submit_quiz", user_id, 500, submission, result)
            /\ UNCHANGED db
       ELSE /\ db' = update_knowledge_state_mixed(db, user_id, submission.topic_id,
                                                   result.overall_passed)
            /\ resp' = Response("submit_quiz", user_id, 200, submission, result)
    /\ UNCHANGED active_quizzes
    /\ UNCHANGED Untouched

\* POST /submit_quiz_legacy/{user_id}; the error analysis changes no state
submit_quiz_legacy(user_id, topic_id, env) ==
    /\ LET graded == grade_submission(env) IN
       IF graded.raised
       THEN /\ resp' = Response("submit_quiz_legacy", user_id, 500, [topic_id |-> topic_id], graded)
            /\ UNCHANGED db
       ELSE /\ db' = update_knowledge_state(db, user_id, topic_id, graded.is_correct)
            /\ resp' = Response("submit_quiz_legacy", user_id, 200, [topic_id |-> topic_id], graded)
    /\ UNCHANGED active_quizzes
    /\ UNCHANGED Untouched

\* POST /users/{user_id}/upload; type_ok: the file name ends in .txt, .md or .pdf;
\* success: what document_processor.process_and_store_document returns
upload_user_document(user_id, type_ok, success) ==
    /\ IF ~db[user_id].exists
       THEN resp' = Response("upload_user_document", user_id, 404, <<>>, [stored |-> FALSE])
       ELSE IF ~type_ok
       THEN resp' = Response("upload_user_document", user_id, 400, <<>>, [stored |-> FALSE])
       ELSE IF success
       THEN resp' = Response("upload_user_document", user_id, 200, <<>>, [stored |-> TRUE])
       ELSE resp' = Response("upload_user_document", user_id, 500, <<>>, [stored |-> FALSE])
    /\ UNCHANGED <<db, active_quizzes>>
    /\ UNCHANGED Untouched

\* GET /onboarding_status/{user_id}
get_onboarding_status(user_id) ==
    /\ IF ~db[user_id].exists
       THEN resp' = Response("get_onboarding_status", user_id, 404, <<>>, <<>>)
       ELSE resp' = Response("get_onboarding_status", user_id, 200, <<>>,
                [onboarding_complete |-> db[user_id].onboarding_complete,
                 claimed_topics |-> db[user_id].claimed_mastery,
                 verified_topics |-> db[user_id].verified_mastery,
                 remaining_verifications |->
                     Len(db[user_id].claimed_mastery) - Len(db[user_id].verified_mastery)])
    /\ UNCHANGED <<db, active_quizzes>>
    /\ UNCHANGED Untouched

----------------------------------------------------------------------------
(* The service: one learner's requests against the scenario graph.         *)

\* the learner whose requests are drawn; the other user id never onboards
Learners == {"u1"}

\* ids an onboarding request may claim: the scenario graph's topics and an id it lacks
ClaimIds == {"A", "B", MissingId}
\* ids the later requests name
RequestIds == {"A", "B"}

\* claimed_mastery of an onboarding request: the code reads it through set() and len()
\* only, so one list per multiset of ids
ClaimedLists == {c \in SeqsUpTo(ClaimIds, MaxClaimed) :
                    \A i \in 1..Len(c) - 1 : Rank(c[i]) <= Rank(c[i + 1])}

\* verified_mastery and struggling_with of an onboarding request: empty, or already filled
Prefilled == {<<>>, <<"B">>}

OnboardRequests ==
    {Profile(u, <<>>, c, pre, pre, oc) :
        u \in Learners, c \in ClaimedLists, pre \in Prefilled, oc \in BOOLEAN}

Quiz1 == [key |-> FallbackKey, expected |-> <<"h">>]
Quiz2 == [key |-> ScenarioKey, expected |-> <<"h">>]

\* how the coding part of a submission goes: the execution service and the validator
RunPass == CodingAnswer(EnvAccepted(0, <<"h">>), "approve")
RunFail == CodingAnswer(EnvRuntimeError, "approve")
RunRaise == CodingAnswer(EnvNoKey, "approve")
CodingRuns == {RunPass, RunFail, RunRaise}

\* the quiz the generator produces, and the answers the learner submits
Generated == {Quiz1}
SubmittedAnswers == {FallbackKey}

Submissions ==
    {Submission(t, qt, a, run) :
        t \in RequestIds, qt \in QuizTypes, a \in SubmittedAnswers, run \in CodingRuns}

\* how the generator and the validator answer during a lesson request
LessonOk ==
    [drafts |-> <<Draft("draft1", "q1"), Draft("draft2", "q2")>>, chain_ok |-> TRUE,
     verdicts |-> <<"approve", "approve">>]
LessonRaises == [LessonOk EXCEPT !.drafts[1] = DraftRaises]
LessonRuns == {LessonOk, LessonRaises}

Init ==
    /\ knowledge_graph = ScenarioGraph
    /\ db = EmptyDb
    /\ active_quizzes = <<>>
    /\ resp = Idle
    /\ mastered = <<>>
    /\ next_topic = NotAsked
    /\ grading = NoGrading
    /\ requests = <<>>

Onboard == \E profile \in OnboardRequests : onboard_user(profile)

FetchVerificationQuiz ==
    \E u \in Learners, gen \in Generated :
        \E pick \in (IF db[u].exists THEN Picks(db[u]) ELSE {"None"}) :
            get_mastery_verification_quiz(u, pick, gen)

SubmitVerificationQuiz ==
    \E u \in Learners, submission \in Submissions :
        submit_mastery_verification_quiz(u, submission)

FetchPostLessonQuiz ==
    \E u \in Learners, t \in RequestIds, gen \in Generated : get_post_lesson_quiz_route(u, t, gen)

SubmitQuiz ==
    \E u \in Learners, submission \in Submissions : submit_quiz(u, submission)

SubmitQuizLegacy ==
    \E u \in Learners, t \in RequestIds, run \in CodingRuns : submit_quiz_legacy(u, t, run.env)

FetchProfile == \E u \in Learners : get_user_profile(u)

FetchLesson == \E u \in Learners, env \in LessonRuns : get_lesson(u, env)

Upload == \E u \in Learners, type_ok \in BOOLEAN, success \in BOOLEAN :
              upload_user_document(u, type_ok, success)

FetchOnboardingStatus == \E u \in Learners : get_onboarding_status(u)

Next ==
    \/ Onboard
    \/ FetchProfile
    \/ FetchVerificationQuiz
    \/ SubmitVerificationQuiz
    \/ FetchLesson
    \/ FetchPostLessonQuiz
    \/ SubmitQuiz
    \/ SubmitQuizLegacy
    \/ Upload
    \/ FetchOnboardingStatus

Spec == Init /\ [][Next]_vars

----------------------------------------------------------------------------
(* The mastery state machine *)

Verified(doc) == Range(doc.verified_mastery)
Struggling(doc) == Range(doc.struggling_with)
Claimed(doc) == Range(doc.claimed_mastery)

\* the step is a request of kind op, answered 200, by a learner with a stored profile
Answered(op) ==
    /\ resp'.op = op
    /\ resp'.status = 200
    /\ db[resp'.user].exists

\* C3: a verification-quiz submission for a claimed topic t moves t to verified when the
\* quiz is passed (struggling unchanged) and to struggling when it is failed (verified
\* unchanged); no other topic's membership in verified or struggling changes.
C3_VerificationMovesClaimedTopic ==
    [][Answered("submit_mastery_verification_quiz") =>
         LET u == resp'.user
             t == resp'.req.topic_id
         IN /\ resp'.body.overall_passed =>
                  /\ Verified(db'[u]) = Verified(db[u]) \cup {t}
                  /\ db'[u].struggling_with = db[u].struggling_with
            /\ ~resp'.body.overall_passed =>
                  /\ Struggling(db'[u]) = Struggling(db[u]) \cup {t}
                  /\ db'[u].verified_mastery = db[u].verified_mastery
            /\ (t \in Claimed(db[u]) /\ t \notin Verified(db[u]) \cup Struggling(db[u])) =>
                  /\ resp'.body.overall_passed
                        => (t \in Verified(db'[u]) /\ t \notin Struggling(db'[u]))
                  /\ ~resp'.body.overall_passed
                        => (t \in Struggling(db'[u]) /\ t \notin Verified(db'[u]))
    ]_vars

\* a claimed topic was verified by a passed verification quiz
C3_Witness ==
    /\ resp.op = "submit_mastery_verification_quiz"
    /\ resp.status = 200
    /\ resp.body.overall_passed
    /\ resp.req.topic_id \in Claimed(db[resp.user])
    /\ resp.req.topic_id \in Verified(db[resp.user])
    /\ resp.req.topic_id \notin Struggling(db[resp.user])

\* a claimed topic went to struggling by a failed verification quiz
C3_WitnessFail ==
    /\ resp.op = "submit_mastery_verification_quiz"
    /\ resp.status = 200
    /\ ~resp.body.overall_passed
    /\ resp.req.topic_id \in Claimed(db[resp.user])
    /\ resp.req.topic_id \in Struggling(db[resp.user])
    /\ resp.req.topic_id \notin Verified(db[resp.user])

\* C4: a submission to the post-lesson submit path for topic t that passes leaves t in
\* verified and not in struggling; one that fails leaves t in struggling and verified
\* unchanged; no other topic's membership changes.
C4_PostLessonSubmitUpdate ==
    [][Answered("submit_quiz") =>
         LET u == resp'.user
             t == resp'.req.topic_id
         IN /\ resp'.body.overall_passed =>
                  /\ t \in Verified(db'[u]) /\ t \notin Struggling(db'[u])
                  /\ Verified(db'[u]) = Verified(db[u]) \cup {t}
                  /\ Struggling(db'[u]) = Struggling(db[u]) \ {t}
            /\ ~resp'.body.overall_passed =>
                  /\ t \in Struggling(db'[u])
                  /\ db'[u].verified_mastery = db[u].verified_mastery
                  /\ Struggling(db'[u]) = Struggling(db[u]) \cup {t}
    ]_vars

\* a passed submission left its topic verified while another topic stays in struggling
C4_Witness ==
    /\ resp.op = "submit_quiz"
    /\ resp.status = 200
    /\ db[resp.user].exists
    /\ resp.body.overall_passed
    /\ resp.req.topic_id \in Verified(db[resp.user])
    /\ resp.req.topic_id \notin Struggling(db[resp.user])
    /\ Struggling(db[resp.user]) # {}

\* a failed submission put into struggling a topic that is verified
C4_WitnessFail ==
    /\ resp.op = "submit_quiz"
    /\ resp.status = 200
    /\ db[resp.user].exists
    /\ ~resp.body.overall_passed
    /\ resp.req.topic_id \in Struggling(db[resp.user])
    /\ resp.req.topic_id \in Verified(db[resp.user])

\* C5: a learner whose record satisfies |verified| + |struggling| >= |claimed| has
\* onboarding_complete = true, in every reachable state (also a learner onboarded with no
\* claimed topics, or whose lists grew through the post-lesson submit path).
C5_TerminalConditionImpliesComplete ==
    \A u \in Users :
        (db[u].exists
            /\ Len(db[u].verified_mastery) + Len(db[u].struggling_with)
                  >= Len(db[u].claimed_mastery))
        => db[u].onboarding_complete

\* C6: after a learner fetches a post-lesson quiz for a struggling topic t and submits,
\* as quiz_type post_lesson, the answers that are correct for that quiz, the submission is
\* graded against that quiz and t is in verified and out of struggling.
C6_PostLessonPassReachesVerified ==
    [][(/\ resp.op = "get_post_lesson_quiz"
        /\ resp.status = 200
        /\ resp.body.topic_id \in Struggling(db[resp.user])
        /\ resp'.op = "submit_quiz"
        /\ resp'.user = resp.user
        /\ resp'.req.topic_id = resp.body.topic_id
        /\ resp'.req.quiz_type = "post_lesson"
        /\ resp'.req.mcq_answers = [i \in 1..NumMcq |-> resp.body.mcq_questions[i].correct_answer]
        /\ resp'.req.coding_answer = RunPass)
       =>
       (/\ resp'.body.overall_passed
        /\ resp'.req.topic_id \in Verified(db'[resp'.user])
        /\ resp'.req.topic_id \notin Struggling(db'[resp'.user]))
    ]_vars

\* C10: verified \cup struggling of a learner never loses an element, whatever the
\* sequence of verification, post-lesson and legacy submissions.
C10_ProcessedNeverShrinks ==
    [][\A u \in Users :
          db[u].exists =>
              /\ db'[u].exists
              /\ Verified(db[u]) \cup Struggling(db[u])
                    \subseteq Verified(db'[u]) \cup Struggling(db'[u])
    ]_vars

\* a passed post-lesson submission took its topic out of struggling_with (the list
\* is empty again) and the topic is verified
C10_Witness ==
    /\ resp.op \in {"submit_quiz", "submit_quiz_legacy"}
    /\ resp.status = 200
    /\ db[resp.user].exists
    /\ resp.req.topic_id \in Verified(db[resp.user])
    /\ db[resp.user].struggling_with = <<>>
    /\ db[resp.user].claimed_mastery # <<>>
    /\ Len(db[resp.user].verified_mastery) = 2

\* C11: after a learner is onboarded, no operation (quiz fetch, quiz submission of any
\* kind, lesson fetch, upload, status query, rejected re-onboarding) changes that
\* learner's claimed_mastery list.
C11_ClaimedNeverChanges ==
    [][\A u \in Users :
          db[u].exists =>
              /\ db'[u].exists
              /\ db'[u].claimed_mastery = db[u].claimed_mastery
    ]_vars

\* a passed submission has just verified one of two claimed topics, which are both
\* still claimed
C11_Witness ==
    /\ resp.op \in {"submit_mastery_verification_quiz", "submit_quiz"}
    /\ resp.status = 200
    /\ db[resp.user].exists
    /\ resp.body.overall_passed
    /\ db[resp.user].claimed_mastery = <<"A", "B">>
    /\ resp.req.topic_id \in Verified(db[resp.user])

\* C12: immediately after a successful onboarding the stored mastery state of the new
\* learner has claimed equal to the submitted claimed list, verified empty, struggling
\* empty and onboarding_complete false, whatever the request carried for those fields.
C12_OnboardingStartsEmpty ==
    (resp.op = "onboard_user" /\ resp.status = 201) =>
        /\ db[resp.user].exists
        /\ db[resp.user].claimed_mastery = resp.req.claimed_mastery
        /\ db[resp.user].verified_mastery = <<>>
        /\ db[resp.user].struggling_with = <<>>
        /\ ~db[resp.user].onboarding_complete

\* C18: onboarding a learner id that already has a stored profile is rejected with 409
\* and leaves the stored profile, its mastery state and onboarding_complete flag
\* included, unchanged.
C18_DuplicateOnboardingRejected ==
    [][(resp'.op = "onboard_user" /\ db[resp'.user].exists) =>
          /\ resp'.status = 409
          /\ db' = db
    ]_vars

\* a second onboarding of a learner who has completed verification was rejected
C18_Witness ==
    /\ resp.op = "onboard_user"
    /\ resp.status = 409
    /\ db[resp.user].exists
    /\ db[resp.user].onboarding_complete
    /\ db[resp.user].verified_mastery # <<>>

\* the learner-scoped operations
LearnerOps ==
    {"get_user_profile", "get_mastery_verification_quiz", "submit_mastery_verification_quiz",
     "get_lesson", "get_post_lesson_quiz", "submit_quiz", "submit_quiz_legacy",
     "upload_user_document", "get_onboarding_status"}

\* the response of a submit operation was produced by a call of the grader
Graded(r) ==
    /\ r.op \in {"submit_mastery_verification_quiz", "submit_quiz", "submit_quiz_legacy"}
    /\ r.body # NotGraded

\* C19: every learner-scoped operation invoked with a learner id that has no stored
\* profile yields 404 Not Found, performs no grading and writes nothing.
C19_UnknownLearnerNotFound ==
    [][(resp'.op \in LearnerOps /\ ~db[resp'.user].exists) =>
          /\ resp'.status = 404
          /\ ~Graded(resp')
          /\ db' = db
          /\ active_quizzes' = active_quizzes
    ]_vars

\* C20: when nothing is left to serve the fetch answers 404: fetch-verification-quiz when
\* no claimed topic of a learner still in onboarding remains unprocessed, fetch-next-lesson
\* when the learning loop of an onboarded learner yields no lesson topic.
C20_NothingLeftIsNotFound ==
    /\ (resp.op = "get_mastery_verification_quiz"
           /\ db[resp.user].exists
           /\ ~db[resp.user].onboarding_complete
           /\ Range(db[resp.user].claimed_mastery)
                 \subseteq Verified(db[resp.user]) \cup Struggling(db[resp.user]))
          => resp.status = 404
    /\ (resp.op = "get_lesson"
           /\ db[resp.user].exists
           /\ db[resp.user].onboarding_complete
           /\ get_next_topic(knowledge_graph, db[resp.user].verified_mastery) = NoTopic)
          => resp.status = 404

\* C21: fetch-next-lesson produces a lesson only for a learner whose onboarding_complete
\* is true (otherwise it answers 400 with no lesson), and fetch-verification-quiz
\* generates and stores no quiz for a learner whose onboarding_complete is true (400).
C21_PhaseGating ==
    [][/\ (resp'.op = "get_lesson" /\ resp'.status = 200) =>
             (db[resp'.user].exists /\ db[resp'.user].onboarding_complete)
       /\ (resp'.op = "get_lesson" /\ db[resp'.user].exists
             /\ ~db[resp'.user].onboarding_complete) =>
             /\ resp'.status = 400
             /\ resp'.body = NoLesson
       /\ (resp'.op = "get_mastery_verification_quiz" /\ db[resp'.user].exists
             /\ db[resp'.user].onboarding_complete) =>
             /\ resp'.status = 400
             /\ resp'.body = NoQuiz
             /\ active_quizzes' = active_quizzes
    ]_vars

\* a verification quiz was refused to a learner who has completed onboarding although a
\* claimed topic of the learner is still unprocessed
C21_Witness ==
    /\ resp.op = "get_mastery_verification_quiz"
    /\ resp.status = 400
    /\ db[resp.user].onboarding_complete
    /\ ~(Claimed(db[resp.user]) \subseteq Verified(db[resp.user]) \cup Struggling(db[resp.user]))

\* a lesson was refused to a learner still in onboarding
C21_WitnessLesson ==
    /\ resp.op = "get_lesson"
    /\ resp.status = 400
    /\ db[resp.user].exists
    /\ ~db[resp.user].onboarding_complete

\* a lesson was served to a learner who has completed onboarding
C21_WitnessServed ==
    /\ resp.op = "get_lesson"
    /\ resp.status = 200
    /\ db[resp.user].onboarding_complete

\* C25: in every reachable state no topic id is in both verified and struggling for the
\* same learner, under any order of verification-quiz and post-lesson-quiz submissions,
\* repeated submissions for the same topic included.
C25_VerifiedStrugglingDisjoint ==
    \A u \in Users :
        db[u].exists => Verified(db[u]) \cap Struggling(db[u]) = {}

\* C26: whenever a learner's onboarding_complete is true, every topic id in claimed is in
\* verified \cup struggling, whatever topic ids were submitted to the verification endpoint.
C26_CompleteImpliesAllProcessed ==
    \A u \in Users :
        (db[u].exists /\ db[u].onboarding_complete)
            => Claimed(db[u]) \subseteq Verified(db[u]) \cup Struggling(db[u])

\* C27: in every reachable state, for every onboarded learner, either
\* fetch-verification-quiz can yield a quiz (some claimed topic is unprocessed and found
\* in the graph) or onboarding_complete is true.
C27_NeverStuckBetweenPhases ==
    \A u \in Users :
        db[u].exists =>
            \/ db[u].onboarding_complete
            \/ \E pick \in Claimed(db[u]) \ (Verified(db[u]) \cup Struggling(db[u])) :
                   get_onboarding_quiz(knowledge_graph, db[u], pick, Quiz1) # NoQuiz

\* C28: submit-verification-quiz changes a learner's mastery only for a topic that is
\* currently Claimed (in claimed, in neither verified nor struggling) and only while
\* onboarding is not complete.
C28_VerificationOnlyForClaimed ==
    [][(resp'.op = "submit_mastery_verification_quiz" /\ db' # db) =>
          /\ resp'.req.topic_id \in Claimed(db[resp'.user])
          /\ resp'.req.topic_id \notin Verified(db[resp'.user]) \cup Struggling(db[resp'.user])
          /\ ~db[resp'.user].onboarding_complete
    ]_vars

\* C29: a quiz submission for which no stored quiz is found (no cache entry matches its
\* topic and quiz kind) is reported as a grading failure without executing the submitted
\* code, and leaves the learner's verified, struggling and onboarding_complete unchanged.
C29_QuizNotFoundChangesNothing ==
    [][(resp'.op \in {"submit_mastery_verification_quiz", "submit_quiz"}
          /\ db[resp'.user].exists
          /\ ~\E i \in 1..Len(active_quizzes) :
                  /\ active_quizzes[i].quiz.topic_id = resp'.req.topic_id
                  /\ active_quizzes[i].quiz.quiz_type = resp'.req.quiz_type) =>
          /\ ~resp'.body.overall_passed
          /\ ~resp'.body.executed
          /\ db'[resp'.user].verified_mastery = db[resp'.user].verified_mastery
          /\ db'[resp'.user].struggling_with = db[resp'.user].struggling_with
          /\ db'[resp'.user].onboarding_complete = db[resp'.user].onboarding_complete
    ]_vars

----------------------------------------------------------------------------
(* The quiz cache with two learners: both onboard claiming topic A, fetch  *)
(* their verification quizzes and submit.                                  *)

CacheOnboard ==
    \E u \in Users : onboard_user(Profile(u, <<>>, <<"A">>, <<>>, <<>>, FALSE))

CacheFetch ==
    \E u \in Users, gen \in {Quiz1, Quiz2} :
        \E pick \in (IF db[u].exists THEN Picks(db[u]) ELSE {"None"}) :
            get_mastery_verification_quiz(u, pick, gen)

CacheSubmissions ==
    {Submission("A", "onboarding", a, run) :
        a \in {FallbackKey, ScenarioKey}, run \in {RunPass, RunFail}}

CacheSubmitVerification ==
    \E u \in Users, submission \in CacheSubmissions :
        submit_mastery_verification_quiz(u, submission)

CacheSubmit ==
    \E u \in Users, submission \in CacheSubmissions : submit_quiz(u, submission)

NextCache == CacheOnboard \/ CacheFetch \/ CacheSubmitVerification \/ CacheSubmit

SpecCache == Init /\ [][NextCache]_vars

\* C7: a submission by learner u for (topic, kind) is graded against the quiz stored
\* under the key (u, topic, kind), never against a quiz generated for another learner.
C7_GradedAgainstOwnQuiz ==
    (resp.op \in {"submit_mastery_verification_quiz", "submit_quiz"}
        /\ resp.status = 200
        /\ db[resp.user].exists
        /\ get_stored_quiz(active_quizzes, resp.user, resp.req.topic_id, resp.req.quiz_type)
              # NoQuiz)
    => resp.body.graded_key = QuizKey(resp.user, resp.req.topic_id, resp.req.quiz_type)

\* C23: for every mixed-quiz submission graded against a stored quiz, overall_passed is
\* true exactly when mcq_passed and coding_passed are both true, and the value handed to
\* the mastery update is this overall_passed: the topic goes to verified when it is true
\* and to struggling when it is false.
C23_OverallIsBothParts ==
    [][(resp'.op \in {"submit_mastery_verification_quiz", "submit_quiz"}
          /\ resp'.status = 200
          /\ resp'.body.graded_key # "") =>
          /\ resp'.body.overall_passed
                <=> (resp'.body.mcq_passed /\ resp'.body.coding_passed)
          /\ db[resp'.user].exists =>
                IF resp'.body.mcq_passed /\ resp'.body.coding_passed
                THEN /\ resp'.req.topic_id \in Verified(db'[resp'.user])
                     /\ Struggling(db'[resp'.user]) \subseteq Struggling(db[resp'.user])
                ELSE /\ resp'.req.topic_id \in Struggling(db'[resp'.user])
                     /\ db'[resp'.user].verified_mastery = db[resp'.user].verified_mastery
    ]_vars

\* a submission with a correct coding answer and too few correct MCQ answers was graded
\* against a stored quiz: not passed, the topic is in struggling_with and not verified
C23_Witness ==
    /\ resp.op \in {"submit_mastery_verification_quiz", "submit_quiz"}
    /\ resp.status = 200
    /\ resp.body.graded_key # ""
    /\ db[resp.user].exists
    /\ resp.body.coding_passed
    /\ ~resp.body.mcq_passed
    /\ ~resp.body.overall_passed
    /\ resp.req.topic_id \in Struggling(db[resp.user])
    /\ resp.req.topic_id \notin Verified(db[resp.user])

\* both parts passed: the topic is verified
C23_WitnessPassed ==
    /\ resp.op \in {"submit_mastery_verification_quiz", "submit_quiz"}
    /\ resp.status = 200
    /\ resp.body.graded_key # ""
    /\ db[resp.user].exists
    /\ resp.body.mcq_passed
    /\ resp.body.coding_passed
    /\ resp.body.overall_passed
    /\ resp.req.topic_id \in Verified(db[resp.user])

----------------------------------------------------------------------------
(* Tutor runs: get_next_claimed_topic and run_learning_loop applied to     *)
(* drawn profiles.                                                         *)

\* a second graph, whose third topic lists a prerequisite no topic carries
TutorGraphs == {ScenarioGraph, MakeGraph(3, 1, <<<<>>, <<"A">>, <<MissingId>>>>)}

\* the mastery lists of the drawn profiles: one list per set of at most MaxClaimed ids
IdLists == {SetToList(S) : S \in {T \in SUBSET ClaimIds : Cardinality(T) <= MaxClaimed}}

TagLists == {<<>>, <<"use_analogy">>}

ClaimProfiles ==
    {Profile("u1", <<>>, c, v, s, FALSE) : c \in IdLists, v \in IdLists, s \in IdLists}

LessonProfiles ==
    {Profile("u1", tags, <<>>, v, <<>>, oc) : tags \in TagLists, v \in IdLists, oc \in BOOLEAN}

\* what generate_content may return at one attempt
DraftOutcomes == {DraftRaises, Draft("", "q0"), Draft("draft1", "q1"), Draft("draft2", "q2")}

LessonEnvs ==
    [drafts : [1..MaxRetries -> DraftOutcomes], chain_ok : BOOLEAN,
     verdicts : [1..MaxRetries -> {"approve", "reject", "error"}]]

InitTutor ==
    /\ knowledge_graph \in TutorGraphs
    /\ grading = NoGrading
    /\ db = EmptyDb
    /\ active_quizzes = <<>>
    /\ resp = Idle
    /\ mastered = <<>>
    /\ next_topic = NotAsked
    /\ requests = <<>>

CallNextClaimed ==
    /\ grading = NoGrading
    /\ \E profile \in ClaimProfiles :
          \E pick \in Picks(profile) :
              grading' = Call("get_next_claimed_topic", [profile |-> profile, pick |-> pick],
                              get_next_claimed_topic(knowledge_graph, profile, pick))
    /\ UNCHANGED <<knowledge_graph, db, active_quizzes, resp, mastered, next_topic, requests>>

CallLearningLoop ==
    /\ grading = NoGrading
    /\ \E profile \in LessonProfiles, env \in LessonEnvs :
          grading' = Call("run_learning_loop", [profile |-> profile, env |-> env],
                          run_learning_loop(knowledge_graph, profile, env))
    /\ UNCHANGED <<knowledge_graph, db, active_quizzes, resp, mastered, next_topic, requests>>

NextTutor == CallNextClaimed \/ CallLearningLoop \/ ReturnToCaller

SpecTutor == InitTutor /\ [][NextTutor]_vars

\* claimed - (verified \cup struggling) of the profile a call was made with
Remaining(profile) ==
    Range(profile.claimed_mastery)
        \ (Range(profile.verified_mastery) \cup Range(profile.struggling_with))

\* C13: get_next_claimed_topic returns None whenever claimed - (verified \cup struggling)
\* is empty.
C13_NoneWhenNothingRemains ==
    (grading.fn = "get_next_claimed_topic" /\ Remaining(grading.args.profile) = {})
        => grading.ret = NoTopic

\* every claimed topic is processed, one verified and one struggling: None
C13_Witness ==
    /\ grading.fn = "get_next_claimed_topic"
    /\ Cardinality(Range(grading.args.profile.claimed_mastery)) = 2
    /\ Range(grading.args.profile.claimed_mastery) \cap Range(grading.args.profile.verified_mastery) # {}
    /\ Range(grading.args.profile.claimed_mastery) \cap Range(grading.args.profile.struggling_with) # {}
    /\ Remaining(grading.args.profile) = {}
    /\ grading.ret = NoTopic

\* C14: whenever claimed - (verified \cup struggling) is non-empty, get_next_claimed_topic
\* returns a topic whose id is in that set; it never answers None while an unprocessed
\* claimed id remains, also when a claimed id does not occur in the topic graph.
C14_ReturnsRemainingClaimed ==
    (grading.fn = "get_next_claimed_topic" /\ Remaining(grading.args.profile) # {})
        => /\ grading.ret # NoTopic
           /\ grading.ret.id \in Remaining(grading.args.profile)

\* the two attempts of a run, and whether the validator approves attempt k
Attempts == 1..2
Approves(env, tags, k) == tags = <<>> \/ env.verdicts[k] = "approve"

\* the attempt whose draft a completed run keeps: the first approved one, else the last
Kept(env, tags) ==
    IF \E k \in Attempts : Approves(env, tags, k)
    THEN FirstOf({k \in Attempts : Approves(env, tags, k)})
    ELSE 2

\* the run returned a lesson: a topic was found and no collaborator raised
LessonReturned ==
    /\ grading.fn = "run_learning_loop"
    /\ ~grading.ret.raised
    /\ grading.ret.lesson # NoLesson

\* C17 (as stated): run_learning_loop makes at most 2 generate-then-validate attempts,
\* stops at the first attempt the validator approves and returns that draft, and when
\* both attempts are rejected returns the draft of the second attempt.
C17_ReturnsKeptDraft ==
    /\ grading.fn = "run_learning_loop" => grading.ret.attempts <= 2
    /\ LessonReturned =>
          LET env == grading.args.env
              kept == Kept(env, grading.args.profile.tags)
          IN /\ grading.ret.attempts = kept
             /\ grading.ret.lesson.content = env.drafts[kept].content
             /\ grading.ret.lesson.quiz = env.drafts[kept].quiz

\* C17 (amended): run_learning_loop makes at most 2 generate-then-validate attempts
\* and stops at the first attempt the validator approves; it returns the draft of that
\* attempt, or of the second attempt when both are rejected, if that draft's lesson
\* content is not empty, and the apology lesson with an empty quiz if it is empty.
C17_ReturnsKeptDraftOrApology ==
    /\ grading.fn = "run_learning_loop" => grading.ret.attempts <= 2
    /\ LessonReturned =>
          LET env == grading.args.env
              kept == Kept(env, grading.args.profile.tags)
          IN /\ grading.ret.attempts = kept
             /\ env.drafts[kept].content # "" =>
                   /\ grading.ret.lesson.content = env.drafts[kept].content
                   /\ grading.ret.lesson.quiz = env.drafts[kept].quiz
             /\ env.drafts[kept].content = "" =>
                   /\ grading.ret.lesson.content = Apology
                   /\ grading.ret.lesson.quiz = ""

\* both attempts rejected, with different drafts: the second one is returned
C17_Witness ==
    /\ LessonReturned
    /\ grading.args.profile.tags # <<>>
    /\ grading.args.env.verdicts = <<"reject", "reject">>
    /\ grading.args.env.drafts = <<Draft("draft1", "q1"), Draft("draft2", "q2")>>
    /\ grading.ret.attempts = 2
    /\ grading.ret.lesson.content = "draft2"

\* the first attempt is approved: one attempt, its draft returned
C17_WitnessApproved ==
    /\ LessonReturned
    /\ grading.args.profile.tags # <<>>
    /\ grading.args.env.verdicts[1] = "approve"
    /\ grading.args.env.drafts[1] = Draft("draft1", "q1")
    /\ grading.args.env.drafts[2] = Draft("draft2", "q2")
    /\ grading.ret.attempts = 1
    /\ grading.ret.lesson.content = "draft1"

----------------------------------------------------------------------------
(* Concurrent requests for one learner.  A request runs its handler one    *)
(* store call at a time, and the store calls of two requests interleave;   *)
(* each single store call (get, set, update) is atomic in Firestore.       *)

Procs == {1, 2}
RaceUser == "u1"

NoRequest ==
    [op |-> "none", input |-> <<>>, at |-> "none", doc |-> NoDoc, seen |-> NoDoc,
     passed |-> FALSE, status |-> 0, wrote |-> FALSE, late |-> FALSE]

\* a request as it arrives.  doc and seen are the snapshots the handler reads, passed is
\* result.overall_passed, status the answer.  wrote (the request has made its first store
\* write) and late (the other request had written when this one arrived) record history.
Request(op, input, late) ==
    [op |-> op, input |-> input, at |-> "start", doc |-> NoDoc, seen |-> NoDoc,
     passed |-> FALSE, status |-> 0, wrote |-> FALSE, late |-> late]

\* active_quizzes during the concurrent runs: a stored quiz for every topic and kind
RaceQuizzes ==
    <<Stored(RaceUser, "A", "onboarding", FallbackKey),
      Stored(RaceUser, "B", "onboarding", FallbackKey),
      Stored(RaceUser, "A", "post_lesson", FallbackKey),
      Stored(RaceUser, "B", "post_lesson", FallbackKey)>>

\* the stored profile the runs start from, when there is one
RaceProfiles ==
    {Profile(RaceUser, <<>>, <<"A", "B">>, <<>>, <<>>, FALSE),
     Profile(RaceUser, <<>>, <<"A", "B">>, <<>>, <<"B">>, FALSE),
     Profile(RaceUser, <<>>, <<"A">>, <<"A">>, <<>>, TRUE)}

RaceOnboardings == {Profile(RaceUser, <<>>, c, <<>>, <<>>, FALSE) : c \in {<<"A">>, <<"B">>}}

RaceSubmissions(quiz_type) ==
    {Submission(t, quiz_type, FallbackKey, run) : t \in RequestIds, run \in CodingRuns}

InitRace ==
    /\ knowledge_graph = ScenarioGraph
    /\ db \in {EmptyDb} \cup {[EmptyDb EXCEPT ![RaceUser] = pr] : pr \in RaceProfiles}
    /\ active_quizzes = RaceQuizzes
    /\ resp = Idle
    /\ mastered = <<>>
    /\ next_topic = NotAsked
    /\ grading = NoGrading
    /\ requests = [p \in Procs |-> NoRequest]

Others == <<knowledge_graph, active_quizzes, resp, mastered, next_topic, grading>>

At(p, op, at) == requests[p].op = op /\ requests[p].at = at

Answer(p, status) == [requests EXCEPT ![p].at = "done", ![p].status = status]

\* a request arrives: one per worker
Arrive(p) ==
    /\ requests[p].op = "none"
    /\ LET late == \E q \in Procs \ {p} : requests[q].wrote IN
       \/ \E profile \in RaceOnboardings :
              requests' = [requests EXCEPT ![p] = Request("onboard_user", profile, late)]
       \/ \E submission \in RaceSubmissions("onboarding") :
              requests' = [requests EXCEPT ![p] =
                               Request("submit_mastery_verification_quiz", submission, late)]
       \/ \E submission \in RaceSubmissions("post_lesson") :
              requests' = [requests EXCEPT ![p] = Request("submit_quiz", submission, late)]
    /\ UNCHANGED db
    /\ UNCHANGED Others

\* onboard_user, main.py:23-24: user_ref.get().exists
OnboardExists(p) ==
    /\ At(p, "onboard_user", "start")
    /\ requests' = IF db[requests[p].input.userId].exists
                   THEN Answer(p, 409)
                   ELSE [requests EXCEPT ![p].at = "set"]
    /\ UNCHANGED db
    /\ UNCHANGED Others

\* onboard_user, main.py:27-32: user_ref.set(user_data) replaces the document
OnboardSet(p) ==
    /\ At(p, "onboard_user", "set")
    /\ db' = [db EXCEPT ![requests[p].input.userId] =
                  [requests[p].input EXCEPT !.onboarding_complete = FALSE]]
    /\ requests' = [Answer(p, 201) EXCEPT ![p].wrote = TRUE]
    /\ UNCHANGED Others

\* submit_mastery_verification_quiz, main.py:70-73: doc = user_ref.get()
VerifyGet(p) ==
    /\ At(p, "submit_mastery_verification_quiz", "start")
    /\ requests' = IF ~db[RaceUser].exists
                   THEN Answer(p, 404)
                   ELSE [requests EXCEPT ![p].at = "grade", ![p].doc = db[RaceUser]]
    /\ UNCHANGED db
    /\ UNCHANGED Others

\* main.py:76 and main.py:130: grader.grade_mixed_quiz(submission)
Grade(p) ==
    /\ \/ At(p, "submit_mastery_verification_quiz", "grade")
       \/ At(p, "submit_quiz", "start")
    /\ LET result == grade_mixed_quiz(active_quizzes, requests[p].input) IN
       requests' = IF result.raised
                   THEN Answer(p, 500)
                   ELSE [requests EXCEPT ![p].at = "update",
                                         ![p].passed = result.overall_passed]
    /\ UNCHANGED db
    /\ UNCHANGED Others

\* (mutant) the lists are written back from the snapshot the handler read
VerifyUpdateFromSnapshot(p) ==
    /\ At(p, "submit_mastery_verification_quiz", "update")
    /\ db' = [db EXCEPT ![RaceUser] =
                  IF requests[p].passed
                  THEN [@ EXCEPT !.verified_mastery =
                                     ArrayUnion(requests[p].doc.verified_mastery,
                                                requests[p].input.topic_id),
                                 !.struggling_with = requests[p].doc.struggling_with]
                  ELSE [@ EXCEPT !.struggling_with =
                                     ArrayUnion(requests[p].doc.struggling_with,
                                                requests[p].input.topic_id),
                                 !.verified_mastery = requests[p].doc.verified_mastery]]
    /\ requests' = [requests EXCEPT ![p].at = "check", ![p].wrote = TRUE]
    /\ UNCHANGED Others

\* update_mastery_verification, student_model.py:74-85: one user_ref.update whose
\* ArrayUnion the store applies to the list as stored when the write arrives
VerifyUpdate(p) ==
    /\ At(p, "submit_mastery_verification_quiz", "update")
    /\ db' = [db EXCEPT ![RaceUser] =
                  IF ~@.exists THEN @
                  ELSE IF requests[p].passed
                  THEN [@ EXCEPT !.verified_mastery =
                                     ArrayUnion(@, requests[p].input.topic_id)]
                  ELSE [@ EXCEPT !.struggling_with =
                                     ArrayUnion(@, requests[p].input.topic_id)]]
    /\ requests' = IF db[RaceUser].exists
                   THEN [requests EXCEPT ![p].at = "check", ![p].wrote = TRUE]
                   ELSE Answer(p, 200)
    /\ UNCHANGED Others

\* update_mastery_verification, student_model.py:88-94: doc = user_ref.get() and the counts
VerifyCheck(p) ==
    /\ At(p, "submit_mastery_verification_quiz", "check")
    /\ LET doc == db[RaceUser] IN
       requests' =
           IF doc.exists /\ Len(doc.verified_mastery) + Len(doc.struggling_with)
                                >= Len(doc.claimed_mastery)
           THEN [requests EXCEPT ![p].at = "flag", ![p].seen = doc]
           ELSE [Answer(p, 200) EXCEPT ![p].seen = doc]
    /\ UNCHANGED db
    /\ UNCHANGED Others

\* update_mastery_verification, student_model.py:95: update({'onboarding_complete': True})
VerifyFlag(p) ==
    /\ At(p, "submit_mastery_verification_quiz", "flag")
    /\ db' = [db EXCEPT ![RaceUser].onboarding_complete = TRUE]
    /\ requests' = Answer(p, 200)
    /\ UNCHANGED Others

\* update_knowledge_state_mixed, student_model.py:110-121: one user_ref.update
QuizUpdate(p) ==
    /\ At(p, "submit_quiz", "update")
    /\ db' = update_knowledge_state_mixed(db, RaceUser, requests[p].input.topic_id,
                                          requests[p].passed)
    /\ requests' = [Answer(p, 200) EXCEPT ![p].wrote = db[RaceUser].exists]
    /\ UNCHANGED Others

NextRace ==
    \E p \in Procs :
        \/ Arrive(p)
        \/ OnboardExists(p)
        \/ OnboardSet(p)
        \/ VerifyGet(p)
        \/ Grade(p)
        \/ VerifyUpdate(p)
        \/ VerifyCheck(p)
        \/ VerifyFlag(p)
        \/ QuizUpdate(p)

SpecRace == InitRace /\ [][NextRace]_vars

GradingOps == {"submit_mastery_verification_quiz", "submit_quiz"}

\* the update of a finished grading request r is in the stored record
Reflected(r) ==
    LET doc == db[RaceUser]
        t == r.input.topic_id
    IN IF r.passed
       THEN /\ t \in Verified(doc)
            /\ r.op = "submit_quiz" => t \notin Struggling(doc)
       ELSE t \in Struggling(doc)

\* two grading requests of the stored learner, on two different topics, both answered 200
BothGraded(p, q) ==
    /\ p # q
    /\ db[RaceUser].exists
    /\ \A r \in {requests[p], requests[q]} :
           r.op \in GradingOps /\ r.at = "done" /\ r.status = 200
    /\ requests[p].input.topic_id # requests[q].input.topic_id

C22_WitnessMixed ==
    /\ BothGraded(1, 2)
    /\ ~requests[1].late /\ ~requests[2].late
    /\ requests[1].op = "submit_mastery_verification_quiz"
    /\ requests[2].op = "submit_quiz"
    /\ requests[2].passed
    /\ requests[2].input.topic_id = "B"
    /\ db[RaceUser].struggling_with = <<"A">>
    /\ db[RaceUser].verified_mastery = <<"B">>

\* C30: under any interleaving of two concurrent onboarding requests for the same learner
\* id, at most one is answered 201 and the other is rejected with Conflict, and the stored
\* profile is the one of the successful request.
C30_ConcurrentOnboardingOneWins ==
    (\A p \in Procs : requests[p].op = "onboard_user" /\ requests[p].at = "done") =>
        /\ Cardinality({p \in Procs : requests[p].status = 201}) <= 1
        /\ \A p \in Procs :
               \/ requests[p].status = 409
               \/ /\ requests[p].status = 201
                  /\ db[RaceUser] = [requests[p].input EXCEPT !.onboarding_complete = FALSE]

====
